---------------------------- MODULE Spec2Model ----------------------------
(***************************************************************************)
(* Car Price Analytics dashboard: the Streamlit shell (dashboard_app.py),  *)
(* its sidebar filters and session-state store, and the content pages.     *)
(*                                                                         *)
(* Spec     : one browser session of the shell.  Every user interaction    *)
(*            re-runs the shell script top to bottom (load-if-absent,      *)
(*            widgets, apply_filters, publish) and then nav.run() executes *)
(*            the selected page.                                           *)
(* SpecPage : one page script executed against a session store that is     *)
(*            either empty (the script is started on its own) or holds     *)
(*            what the shell publishes.                                    *)
(* SpecFilters : one run of the shell for every filter selection.          *)
(* SpecVerdict, SpecSample, SpecRouting, SpecSpearman : the calculations   *)
(*            the pages make (verdict blocks, price metrics, median split, *)
(*            price cap, categorical tests, Spearman ranking), applied to  *)
(*            every input of a bounded set.                                *)
(***************************************************************************)
EXTENDS Integers, Sequences, FiniteSets, TLC

VARIABLES
    disk,           \* number of rows of data/final/car_prices.csv
    csv_on_disk,    \* TRUE iff data/final/car_prices.csv exists
    artifact,       \* pages/model/trained_model.pkl: "ok", "missing", "corrupt"
    session,        \* st.session_state: df, filtered_df, global_filters
    widgets,        \* the user's latest selection in each sidebar control
    filters,        \* the script variables price_range .. drivewheel_types of the latest run
    current_page,   \* title of the page selected in the navigation / script being run
    pc,             \* "start", "page" (shell done, page about to execute), "idle"
    sidebar_count,  \* N of "Cars after filtering: N"
    load_calls,     \* number of load_data() calls made by the shell
    assigned,       \* session keys assigned by the shell in the latest run
    button,         \* Predict Price button pressed in the latest run of the model page
    outcome,        \* how the latest page execution ended
    shown,          \* what the prediction block of the model page shows
    steps,          \* what the latest page execution computed or rendered
    working,        \* the dataset the latest page execution worked on
    input,          \* the arguments of a page calculation (SpecVerdict .. SpecSpearman)
    result          \* what the calculation returned or rendered

vars == << disk, csv_on_disk, artifact, session, widgets, filters, current_page,
           pc, sidebar_count, load_calls, assigned, button, outcome, shown,
           steps, working, input, result >>

\* The variables of the page calculations; a session of the shell and a page
\* script leave them alone.
calc == << input, result >>

NoCalc == [op |-> "none"]

---------------------------------------------------------------------------
(* Data: the car records                                                   *)

\* Largest number of rows of the file on disk: where filter selections are
\* enumerated (SpecFilters, SpecPage), and in a session of the shell (Spec).
MaxRows == 4

MaxSessionRows == 2

\* Columns of car_prices.csv that the shell and the preparation steps of the
\* pages read.
BaseColumns ==
    {"price", "enginesize", "horsepower", "fueltype", "carbody", "drivewheel",
     "symboling", "manufacturer"}

Car(p, e, h, f, b, d, s, m) ==
    [price |-> p, enginesize |-> e, horsepower |-> h,
     fueltype |-> f, carbody |-> b, drivewheel |-> d, symboling |-> s, manufacturer |-> m]

\* A catalogue of car records; the file on disk holds one of its prefixes.
Catalogue ==
    << Car(1, 1, 2, "petrol", "sedan",     "fwd", 0,  "audi"),
       Car(2, 2, 1, "diesel", "hatchback", "fwd", 3,  "bmw"),
       Car(3, 2, 2, "petrol", "sedan",     "fwd", 1,  "toyota"),
       Car(3, 1, 1, "diesel", "hatchback", "rwd", -1, "audi"),
       Car(2, 1, 2, "diesel", "wagon",     "rwd", 2,  "bmw") >>

\* A data frame: its row labels in order (row i is the i-th record of the
\* file) and its column names.  No modelled code changes a cell of a base
\* column, so the cells are read from the catalogue.
Frame(rows, cols) == [rows |-> rows, columns |-> cols]

Cell(i, col) == Catalogue[i][col]

\* What a page execution worked on: where the frame came from ("filtered_df",
\* "df", or "csv" for a file read by the page itself), the frame, and what the
\* page derived from it for its widgets and tests.
NoView == [source |-> "none"]

View(source, df, shows) == [source |-> source, df |-> df, shows |-> shows]

\* The files that can be on disk, by number of rows.  Every file has at least
\* two distinct values per numeric column, so that each range slider has
\* min_value < max_value.
Datasets == 2..MaxRows

SessionDatasets == 2..MaxSessionRows

Range(s) == { s[i] : i \in DOMAIN s }

\* df[col].unique().tolist(), as a set
Unique(df, col) == { Cell(i, col) : i \in Range(df.rows) }

SetMin(S) == CHOOSE x \in S : \A y \in S : x <= y
SetMax(S) == CHOOSE x \in S : \A y \in S : y <= x

\* df[col].min(), df[col].max()
ColMin(df, col) == SetMin(Unique(df, col))
ColMax(df, col) == SetMax(Unique(df, col))

---------------------------------------------------------------------------
(* Order statistics of a column                                            *)

RECURSIVE Insert(_, _)
Insert(x, sorted) ==
    IF sorted = << >> \/ x <= Head(sorted)
    THEN << x >> \o sorted
    ELSE << Head(sorted) >> \o Insert(x, Tail(sorted))

\* The values of s in ascending order.
RECURSIVE SortAscending(_)
SortAscending(s) == IF s = << >> THEN << >> ELSE Insert(Head(s), SortAscending(Tail(s)))

\* df['price'].quantile(0.99), times 100: linear interpolation between the
\* two order statistics around position 0.99 * (n - 1)
Quantile99x100(prices) ==
    LET sorted == SortAscending(prices)
        n      == Len(prices)
        lo     == ((99 * (n - 1)) \div 100) + 1
        frac   == (99 * (n - 1)) % 100
        hi     == IF lo < n THEN lo + 1 ELSE n
    IN  100 * sorted[lo] + frac * (sorted[hi] - sorted[lo])

---------------------------------------------------------------------------
(* st.session_state: every key holds << >> (absent) or << value >>          *)

SessionKeys == {"df", "filtered_df", "global_filters"}

EmptySession == [k \in SessionKeys |-> << >>]

Has(store, key) == store[key] # << >>

Get(store, key) == store[key][1]

\* A defect of Put: a key that is present keeps its value.
PutIfAbsent(store, key, value) ==
    IF Has(store, key) THEN store ELSE [store EXCEPT ![key] = << value >>]

\* st.session_state[key] = value
Put(store, key, value) == [store EXCEPT ![key] = << value >>]

---------------------------------------------------------------------------
(* dashboard_app.py                                                        *)

\* load_data(): pd.read_csv('data/final/car_prices.csv')
load_data == Frame([i \in 1..disk |-> i], BaseColumns)

\* A defect of NeedsLoad: the dataset is loaded in every run.
NeedsLoadAlways(store) == TRUE

\* if "df" not in st.session_state
NeedsLoad(store) == ~Has(store, "df")

\* A defect of RegisteredPages: the model page is in the list too.
RegisteredPagesWithModel ==
    {"Overview", "Hypothesis 1", "Hypothesis 2", "Hypothesis 3", "Hypothesis 4",
     "Hypothesis 5", "Predictive Model Showcase"}

\* The pages registered with st.navigation, by title.
RegisteredPages ==
    {"Overview", "Hypothesis 1", "Hypothesis 2", "Hypothesis 3", "Hypothesis 4",
     "Hypothesis 5"}

\* Positions of a range slider between the column's min and max: (lo, hi), lo <= hi.
SliderRanges(df, col) ==
    { r \in (ColMin(df, col)..ColMax(df, col)) \X (ColMin(df, col)..ColMax(df, col)) :
        r[1] <= r[2] }

\* The value= / default= of the six sidebar widgets.
DefaultWidgets(df) ==
    [price_range      |-> << ColMin(df, "price"), ColMax(df, "price") >>,
     enginesizes      |-> << ColMin(df, "enginesize"), ColMax(df, "enginesize") >>,
     horsepower       |-> << ColMin(df, "horsepower"), ColMax(df, "horsepower") >>,
     fuel_types       |-> Unique(df, "fueltype"),
     carbody_types    |-> Unique(df, "carbody"),
     drivewheel_types |-> Unique(df, "drivewheel")]

\* Defects of Between: both ends exclusive; the upper end exclusive.
BetweenExclusive(v, range) == range[1] < v /\ v < range[2]

BetweenHalfOpen(v, range) == range[1] <= v /\ v < range[2]

\* Series.between(lo, hi): inclusive at both ends
Between(v, range) == range[1] <= v /\ v <= range[2]

\* A defect of FilterCategory: the membership filter is applied to an empty
\* selection too.
FilterCategoryAlways(rows, col, selection) ==
    SelectSeq(rows, LAMBDA i : Cell(i, col) \in selection)

\* A defect of FilterCategory: the rows whose value is in the selection are the
\* ones dropped.
FilterCategoryExcluding(rows, col, selection) ==
    IF selection # {}
    THEN SelectSeq(rows, LAMBDA i : Cell(i, col) \notin selection)
    ELSE rows

\* if selection: filtered_df = filtered_df[filtered_df[col].isin(selection)]
FilterCategory(rows, col, selection) ==
    IF selection # {}
    THEN SelectSeq(rows, LAMBDA i : Cell(i, col) \in selection)
    ELSE rows

apply_filters(original_df, f) ==
    LET s1 == SelectSeq(original_df.rows, LAMBDA i : Between(Cell(i, "price"), f.price_range))
        s2 == FilterCategory(s1, "fueltype", f.fuel_types)
        s3 == FilterCategory(s2, "carbody", f.carbody_types)
        s4 == FilterCategory(s3, "drivewheel", f.drivewheel_types)
        s5 == SelectSeq(s4, LAMBDA i : Between(Cell(i, "enginesize"), f.enginesizes))
        s6 == SelectSeq(s5, LAMBDA i : Between(Cell(i, "horsepower"), f.horsepower))
    IN  Frame(s6, original_df.columns)


\* A defect of FuelSelection: the multiselect's value on every page.
FuelSelectionNoSuppress(df, w, page) == w.fuel_types

\* fuel_types of the run: the multiselect's value, or, on Hypothesis 1 where the
\* control is not shown, every observed fuel type
FuelSelection(df, w, page) ==
    IF page # "Hypothesis 1" THEN w.fuel_types ELSE Unique(df, "fueltype")

\* The widget values a run works with.  `w` holds the user's latest selection
\* per control; `shown_page` is the page of the previous run.  The fuel-type
\* multiselect is not rendered on Hypothesis 1, and a control that comes back
\* after a run without it starts from its default again.
RenderedWidgets(df, w, shown_page, page) ==
    IF shown_page = "Hypothesis 1" /\ page # "Hypothesis 1"
    THEN [w EXCEPT !.fuel_types = Unique(df, "fueltype")]
    ELSE w

\* The six script variables of a run with widget values w on page `page`.
FilterValues(df, w, page) == [w EXCEPT !.fuel_types = FuelSelection(df, w, page)]

\* The session store after the load-if-absent step.
Loaded(store) == IF NeedsLoad(store) THEN Put(store, "df", load_data) ELSE store

\* The assignments to st.session_state the shell makes in one run, in order.

ShellAssignments(store, w, page) ==
    LET df == Get(Loaded(store), "df")
        f  == FilterValues(df, w, page)
    IN  (IF NeedsLoad(store) THEN << << "df", load_data >> >> ELSE << >>)
        \o << << "filtered_df", apply_filters(df, f) >>,
              << "global_filters", f >> >>

RECURSIVE Assign(_, _)
Assign(store, assignments) ==
    IF assignments = << >>
    THEN store
    ELSE Assign(Put(store, Head(assignments)[1], Head(assignments)[2]), Tail(assignments))

\* A defect of FilteredCount: the row count of the raw dataset.
RawCount(store) == Len(Get(store, "df").rows)

\* st.session_state['filtered_df'].shape[0]
FilteredCount(store) == Len(Get(store, "filtered_df").rows)

\* One run of the shell script up to nav.run(): the user's selections are w
\* and the page `page` is selected.
ShellRun(w, page) ==
    LET w1    == RenderedWidgets(Get(Loaded(session), "df"), w, current_page, page)
        todo  == ShellAssignments(session, w1, page)
        store == Assign(session, todo)
    IN  /\ session' = store
        /\ assigned' = { todo[i][1] : i \in DOMAIN todo }
        /\ load_calls' = load_calls + Cardinality({ i \in DOMAIN todo : todo[i][1] = "df" })
        /\ filters' = FilterValues(Get(store, "df"), w1, page)
        /\ widgets' = w1
        /\ sidebar_count' = FilteredCount(store)
        /\ current_page' = page
        /\ pc' = "page"
        /\ outcome' = "none"
        /\ shown' = "none"
        /\ steps' = {}
        /\ working' = NoView
        /\ UNCHANGED << disk, csv_on_disk, artifact, button, calc >>

---------------------------------------------------------------------------
(* The content pages.  Each page body maps the session store it finds to   *)
(* the store it leaves and to how the execution ended:                     *)
(*   "rendered"  the script ran to its end                                 *)
(*   "warning"   st.warning(...) then st.stop()                            *)
(*   "error"     st.error(...) then st.stop()                              *)
(*   "fault"     an exception left the script                              *)

(* `did` is what the execution computed or rendered before it ended, `view` *)
(* the dataset it worked on.                                                *)
PageResult(store, how, prediction, did, view) ==
    [store |-> store, outcome |-> how, shown |-> prediction, steps |-> did,
     working |-> view]

\* df[col] of a frame, in row order
Column(df, col) == [k \in DOMAIN df.rows |-> Cell(df.rows[k], col)]

\* df[col].nunique()
NUnique(df, col) == Cardinality(Unique(df, col))

\* pages/overview.py
OverviewSteps == {"kpis", "histogram", "table", "filters_summary"}

\* A defect of overview_page: no df.empty check before the KPIs.
overview_page_unchecked(store) ==
    IF ~Has(store, "filtered_df")
    THEN PageResult(store, "warning", "none", {}, NoView)
    ELSE PageResult(store, "rendered", "none", OverviewSteps,
                    View("filtered_df", Get(store, "filtered_df"), << >>))

overview_page(store) ==
    IF ~Has(store, "filtered_df")
    THEN PageResult(store, "warning", "none", {}, NoView)
    ELSE IF Get(store, "filtered_df").rows = << >>
         THEN PageResult(store, "error", "none", {},
                         View("filtered_df", Get(store, "filtered_df"), << >>))
         ELSE PageResult(store, "rendered", "none", OverviewSteps,
                         View("filtered_df", Get(store, "filtered_df"), << >>))

\* pages/hypothesis1.py, calculate_correlation: df['fueltype_encoded'] = ...
\* on the frame object held in st.session_state['filtered_df']
calculate_correlation(df) == Frame(df.rows, df.columns \cup {"fueltype_encoded"})

\* A defect of hypothesis1_page: the frame published as filtered_df is the raw
\* frame itself, not a copy, so the new column lands in 'df' too.
hypothesis1_page_on_raw(store) ==
    IF ~Has(store, "filtered_df")
    THEN PageResult(store, "fault", "none", {}, NoView)
    ELSE PageResult(Put(Put(store, "filtered_df",
                            calculate_correlation(Get(store, "filtered_df"))),
                        "df", calculate_correlation(Get(store, "df"))),
                    "rendered", "none", {"metrics", "plots", "correlation", "tests", "verdict"},
                    View("filtered_df", calculate_correlation(Get(store, "filtered_df")), << >>))

\* pages/hypothesis1.py: run_page(st.session_state['filtered_df'])
hypothesis1_page(store) ==
    IF ~Has(store, "filtered_df")
    THEN PageResult(store, "fault", "none", {}, NoView)
    ELSE PageResult(Put(store, "filtered_df", calculate_correlation(Get(store, "filtered_df"))),
                    "rendered", "none", {"metrics", "plots", "correlation", "tests", "verdict"},
                    View("filtered_df", calculate_correlation(Get(store, "filtered_df")), << >>))

\* pages/hypothesis2.py: run_page(st.session_state['filtered_df'])
hypothesis2_page(store) ==
    IF ~Has(store, "filtered_df")
    THEN PageResult(store, "fault", "none", {}, NoView)
    ELSE PageResult(store, "rendered", "none",
                    {"metrics", "plots", "correlation", "tests", "verdict"},
                    View("filtered_df", Get(store, "filtered_df"), << >>))

\* pages/hypothesis3.py: the filtered data if published, else pd.read_csv
hypothesis3_page(store, csv) ==
    IF Has(store, "filtered_df")
    THEN PageResult(store, "rendered", "none", {"plots"},
                    View("filtered_df", Get(store, "filtered_df"), << >>))
    ELSE IF csv
         THEN PageResult(store, "rendered", "none", {"read_csv", "plots"},
                         View("csv", load_data, << >>))
         ELSE PageResult(store, "fault", "none", {"read_csv"}, NoView)

\* pages/hypothesis4.py: df[df["drivewheel"] == wheel]["price"]
drivewheel_prices(df, wheel) ==
    Column(Frame(SelectSeq(df.rows, LAMBDA i : Cell(i, "drivewheel") = wheel), df.columns),
           "price")

\* pages/hypothesis4.py: what the page works on, the frame its own load_data()
\* reads from disk and the two samples of the t-test
hypothesis4_view ==
    View("csv", load_data, [fwd_prices |-> drivewheel_prices(load_data, "fwd"),
                            rwd_prices |-> drivewheel_prices(load_data, "rwd")])

\* A defect of hypothesis4_page: no data check before load_data().
hypothesis4_page_unchecked(store, csv) ==
    IF ~csv
    THEN PageResult(store, "fault", "none", {"load_data"}, NoView)
    ELSE PageResult(store, "rendered", "none", {"load_data", "plots", "t_test", "verdict"},
                    hypothesis4_view)

\* pages/hypothesis4.py: the data check (the file name is looked up in
\* os.listdir("data/final")), then its own load_data(), plots and t-test
hypothesis4_page(store, csv) ==
    IF ~csv
    THEN PageResult(store, "error", "none", {}, NoView)
    ELSE PageResult(store, "rendered", "none", {"load_data", "plots", "t_test", "verdict"},
                    hypothesis4_view)

\* A defect of session_df: the page reads the filtered dataset.
session_filtered_df(store) == Get(store, "filtered_df")

\* hypothesis5.py, insights_model.py: df = st.session_state["df"]
session_df(store) == Get(store, "df")

\* lower, upper = df['price'].quantile([0.0, 0.99]); df = df.query('price <=
\* @upper'); df.reset_index(inplace=True, drop=True): a new frame with the rows
\* kept, in order.  A row stays identified by its record of the file; the row
\* labels 0..n-1 that reset_index gives the new frame are not modelled.
price_capped(df) ==
    Frame(SelectSeq(df.rows,
                    LAMBDA i : 100 * Cell(i, "price") <= Quantile99x100(Column(df, "price"))),
          df.columns)

\* A defect of hypothesis5_page: the capped frame is stored back under 'df'.
hypothesis5_page_in_place(store) ==
    IF ~Has(store, "df")
    THEN PageResult(store, "warning", "none", {}, NoView)
    ELSE LET df == price_capped(session_df(store))
         IN  IF NUnique(df, "manufacturer") <= 2
             THEN PageResult(Put(store, "df", df), "fault", "none", {"cap"},
                             View("df", df, << >>))
             ELSE PageResult(Put(store, "df", df), "rendered", "none",
                             {"cap", "spearman", "categorical"}, View("df", df, << >>))

\* pages/hypothesis5.py: the guard, the price cap, cats_binary and cats_multi,
\* then the tests.  cats_multi.remove('manufacturer') raises ValueError when
\* manufacturer has 2 distinct values or fewer in the capped frame.
hypothesis5_page(store) ==
    IF ~Has(store, "df")
    THEN PageResult(store, "warning", "none", {}, NoView)
    ELSE LET df == price_capped(session_df(store))
         IN  IF NUnique(df, "manufacturer") <= 2
             THEN PageResult(store, "fault", "none", {"cap"}, View("df", df, << >>))
             ELSE PageResult(store, "rendered", "none",
                             {"cap", "spearman", "categorical"}, View("df", df, << >>))

\* insights_model.py: the bounds and options of the input widgets, taken from
\* the capped frame
model_widgets(df) ==
    [horsepower |-> << ColMin(df, "horsepower"), ColMax(df, "horsepower") >>,
     carbody    |-> Unique(df, "carbody"),
     drivewheel |-> Unique(df, "drivewheel")]

\* pages/insights_model.py: `pressed` is st.button's value in this run, `rejects`
\* whether model.predict raises on the record built from the widgets.
\* remove_categories([3]) raises ValueError when no row of the capped frame
\* has symboling 3.
insights_model_page(store, model_file, pressed, rejects) ==
    IF ~Has(store, "df")
    THEN PageResult(store, "warning", "none", {}, NoView)
    ELSE LET df   == price_capped(session_df(store))
             view == View("df", df, model_widgets(df))
             prep == {"cap", "symboling_binned", "load_model"}
         IN  IF 3 \notin Unique(df, "symboling")
             THEN PageResult(store, "fault", "none", {"cap"}, View("df", df, << >>))
             ELSE IF model_file # "ok"
                  THEN PageResult(store, "fault", "none", prep, view)  \* load_model() raises
                  ELSE IF pressed
                       THEN IF rejects
                            THEN PageResult(store, "rendered", "failed",
                                            prep \cup {"predict"}, view)
                            ELSE PageResult(store, "rendered", "prediction",
                                            prep \cup {"predict"}, view)
                       ELSE PageResult(store, "rendered", "prompt", prep, view)

---------------------------------------------------------------------------
(* Spec: a session of the shell                                            *)

Init ==
    /\ disk \in SessionDatasets
    /\ csv_on_disk = TRUE
    /\ artifact = "ok"
    /\ session = EmptySession
    /\ widgets = DefaultWidgets(load_data)
    /\ filters = DefaultWidgets(load_data)
    /\ current_page = "Overview"
    /\ pc = "start"
    /\ sidebar_count = 0
    /\ load_calls = 0
    /\ assigned = {}
    /\ button = FALSE
    /\ outcome = "none"
    /\ shown = "none"
    /\ steps = {}
    /\ working = NoView
    /\ input = NoCalc
    /\ result = NoCalc

\* The session starts: the first run, every widget at its default, Overview selected.
FirstRun ==
    /\ pc = "start"
    /\ ShellRun(widgets, "Overview")

MovePriceSlider ==
    /\ pc = "idle"
    /\ \E r \in SliderRanges(Get(session, "df"), "price") :
          ShellRun([widgets EXCEPT !.price_range = r], current_page)

MoveEngineSizeSlider ==
    /\ pc = "idle"
    /\ \E r \in SliderRanges(Get(session, "df"), "enginesize") :
          ShellRun([widgets EXCEPT !.enginesizes = r], current_page)

MoveHorsepowerSlider ==
    /\ pc = "idle"
    /\ \E r \in SliderRanges(Get(session, "df"), "horsepower") :
          ShellRun([widgets EXCEPT !.horsepower = r], current_page)

\* The fuel-type multiselect exists only when the latest run rendered it.
SelectFuelTypes ==
    /\ pc = "idle"
    /\ current_page # "Hypothesis 1"
    /\ \E S \in SUBSET Unique(Get(session, "df"), "fueltype") :
          ShellRun([widgets EXCEPT !.fuel_types = S], current_page)

SelectCarBodyTypes ==
    /\ pc = "idle"
    /\ \E S \in SUBSET Unique(Get(session, "df"), "carbody") :
          ShellRun([widgets EXCEPT !.carbody_types = S], current_page)

SelectDriveWheelTypes ==
    /\ pc = "idle"
    /\ \E S \in SUBSET Unique(Get(session, "df"), "drivewheel") :
          ShellRun([widgets EXCEPT !.drivewheel_types = S], current_page)

\* The user picks another page in the navigation.
Navigate ==
    /\ pc = "idle"
    /\ \E p \in RegisteredPages \ {current_page} :
          ShellRun(widgets, p)

\* nav.run() / the script body: the page executes and the run ends.
EndRun(page_result) ==
    /\ session' = page_result.store
    /\ outcome' = page_result.outcome
    /\ shown' = page_result.shown
    /\ steps' = page_result.steps
    /\ working' = page_result.working
    /\ pc' = "idle"
    /\ UNCHANGED << disk, csv_on_disk, artifact, widgets, filters, current_page,
                    sidebar_count, load_calls, assigned, calc >>

RunOverview ==
    /\ pc = "page" /\ current_page = "Overview"
    /\ EndRun(overview_page(session))
    /\ UNCHANGED button

RunHypothesis1 ==
    /\ pc = "page" /\ current_page = "Hypothesis 1"
    /\ EndRun(hypothesis1_page(session))
    /\ UNCHANGED button

RunHypothesis2 ==
    /\ pc = "page" /\ current_page = "Hypothesis 2"
    /\ EndRun(hypothesis2_page(session))
    /\ UNCHANGED button

RunHypothesis3 ==
    /\ pc = "page" /\ current_page = "Hypothesis 3"
    /\ EndRun(hypothesis3_page(session, csv_on_disk))
    /\ UNCHANGED button

RunHypothesis4 ==
    /\ pc = "page" /\ current_page = "Hypothesis 4"
    /\ EndRun(hypothesis4_page(session, csv_on_disk))
    /\ UNCHANGED button

RunHypothesis5 ==
    /\ pc = "page" /\ current_page = "Hypothesis 5"
    /\ EndRun(hypothesis5_page(session))
    /\ UNCHANGED button

Next ==
    \/ FirstRun
    \/ MovePriceSlider
    \/ MoveEngineSizeSlider
    \/ MoveHorsepowerSlider
    \/ SelectFuelTypes
    \/ SelectCarBodyTypes
    \/ SelectDriveWheelTypes
    \/ Navigate
    \/ RunOverview
    \/ RunHypothesis1
    \/ RunHypothesis2
    \/ RunHypothesis3
    \/ RunHypothesis4
    \/ RunHypothesis5

Spec == Init /\ [][Next]_vars

---------------------------------------------------------------------------
(* SpecPage: a page script run on a session store                          *)

\* The scripts under pages/ that are content pages, by title.
PageScripts == RegisteredPages \cup {"Predictive Model Showcase"}

\* The store the shell publishes in a run with widget values w.
PublishedSession(w) == Assign(EmptySession, ShellAssignments(EmptySession, w, "Overview"))

InitPage ==
    /\ disk \in Datasets
    /\ csv_on_disk \in BOOLEAN
    /\ artifact \in {"ok", "missing", "corrupt"}
    /\ \E r \in SliderRanges(load_data, "price"), S \in SUBSET Unique(load_data, "fueltype") :
          /\ widgets = [DefaultWidgets(load_data) EXCEPT !.price_range = r, !.fuel_types = S]
          /\ filters = widgets
          /\ session \in {EmptySession, PublishedSession(widgets)}
    /\ current_page \in PageScripts
    /\ pc = "page"
    /\ sidebar_count = 0
    /\ load_calls = 0
    /\ assigned = {}
    /\ button = FALSE
    /\ outcome = "none"
    /\ shown = "none"
    /\ steps = {}
    /\ working = NoView
    /\ input = NoCalc
    /\ result = NoCalc

\* st.button's value in this run is `button`, set by the interaction that
\* started the run.
RunModelShowcase ==
    /\ pc = "page" /\ current_page = "Predictive Model Showcase"
    /\ \E rejects \in BOOLEAN :
          EndRun(insights_model_page(session, artifact, button, rejects))
    /\ UNCHANGED button

\* The Predict Price button is on screen when the latest run of the model page
\* reached it.
ButtonOnScreen ==
    current_page = "Predictive Model Showcase" /\ shown \in {"prompt", "prediction", "failed"}

\* An interaction with the page re-runs its script: the user changes an input
\* widget (st.button is False in the run) or presses the button (True).
RerunScript ==
    /\ pc = "idle"
    /\ pc' = "page"
    /\ button' \in (IF ButtonOnScreen THEN BOOLEAN ELSE {FALSE})
    /\ outcome' = "none"
    /\ shown' = "none"
    /\ steps' = {}
    /\ working' = NoView
    /\ UNCHANGED << disk, csv_on_disk, artifact, session, widgets, filters, current_page,
                    sidebar_count, load_calls, assigned, calc >>

NextPage ==
    \/ RerunScript
    \/ RunOverview
    \/ RunHypothesis1
    \/ RunHypothesis2
    \/ RunHypothesis3
    \/ RunHypothesis4
    \/ RunHypothesis5
    \/ RunModelShowcase

SpecPage == InitPage /\ [][NextPage]_vars

---------------------------------------------------------------------------
(* SpecFilters: one run of the shell for every selection the six controls  *)
(* can hold                                                                *)

\* Every combination of values the six sidebar controls can hold.
Selections(df) ==
    [price_range      : SliderRanges(df, "price"),
     enginesizes      : SliderRanges(df, "enginesize"),
     horsepower       : SliderRanges(df, "horsepower"),
     fuel_types       : SUBSET Unique(df, "fueltype"),
     carbody_types    : SUBSET Unique(df, "carbody"),
     drivewheel_types : SUBSET Unique(df, "drivewheel")]

InitFilters ==
    /\ disk \in Datasets
    /\ csv_on_disk = TRUE
    /\ artifact = "ok"
    /\ session = EmptySession
    /\ widgets \in Selections(load_data)
    /\ filters = DefaultWidgets(load_data)
    /\ current_page = "Overview"
    /\ pc = "start"
    /\ sidebar_count = 0
    /\ load_calls = 0
    /\ assigned = {}
    /\ button = FALSE
    /\ outcome = "none"
    /\ shown = "none"
    /\ steps = {}
    /\ working = NoView
    /\ input = NoCalc
    /\ result = NoCalc

\* The shell runs with the selection held by the controls.
FilterRun ==
    /\ pc = "start"
    /\ ShellRun(widgets, current_page)

NextFilters == FilterRun

SpecFilters == InitFilters /\ [][NextFilters]_vars

---------------------------------------------------------------------------
(* SpecVerdict: the verdict blocks of Hypothesis 1, 2 and 4 for given test  *)
(* results.  p-values and correlations are in thousandths.                 *)

\* Everything but the variables of the page calculations.
shell == << disk, csv_on_disk, artifact, session, widgets, filters, current_page,
            pc, sidebar_count, load_calls, assigned, button, outcome, shown, steps,
            working >>

\* No session is running while a calculation is examined.
NoSession ==
    /\ disk \in SessionDatasets
    /\ csv_on_disk = TRUE
    /\ artifact = "ok"
    /\ session = EmptySession
    /\ widgets = DefaultWidgets(load_data)
    /\ filters = DefaultWidgets(load_data)
    /\ current_page = "Overview"
    /\ pc = "start"
    /\ sidebar_count = 0
    /\ load_calls = 0
    /\ assigned = {}
    /\ button = FALSE
    /\ outcome = "none"
    /\ shown = "none"
    /\ steps = {}
    /\ working = NoView

\* The 0.05 of the verdict conditions, in thousandths.
Alpha == 50

\* p-values a test can return: 0, values around 0.05, the literals 0.032,
\* 0.041, 0.18 and 0.21, and 1.
PValues == {0, 32, 41, 49, 50, 51, 180, 210, 1000}

\* Pearson correlations: -1, just below 0, 0, just above 0, 1.
Correlations == {-1000, -1, 0, 1, 1000}

\* A defect of Significant: the threshold itself counts as significant.
SignificantInclusive(p) == p <= Alpha

\* p < 0.05
Significant(p) == p < Alpha

\* hypothesis1.py, show_interpretation: the blocks rendered
hypothesis1_show_interpretation(t_pval, u_pval) ==
    IF Significant(t_pval) \/ Significant(u_pval) THEN {"success"} ELSE {"info"}

\* A defect of hypothesis2_show_interpretation: the sign of the correlation
\* is not looked at.
hypothesis2_show_interpretation_unsigned(pearson_corr, t_pval, u_pval) ==
    IF Significant(t_pval) \/ Significant(u_pval) THEN {"success"} ELSE {"info"}

\* hypothesis2.py, show_interpretation: the blocks rendered
hypothesis2_show_interpretation(pearson_corr, t_pval, u_pval) ==
    IF pearson_corr < 0 /\ (Significant(t_pval) \/ Significant(u_pval))
    THEN {"success"}
    ELSE {"info"}

\* hypothesis4.py, the t-test verdict: the blocks rendered
hypothesis4_verdict(p_value) ==
    IF Significant(p_value) THEN {"success"} ELSE {"info"}

VerdictInputs ==
    [op : {"hypothesis1"}, t_pval : PValues, u_pval : PValues]
    \cup [op : {"hypothesis2"}, pearson_corr : Correlations, t_pval : PValues, u_pval : PValues]
    \cup [op : {"hypothesis4"}, p_value : PValues]

InitVerdict ==
    /\ NoSession
    /\ input \in VerdictInputs
    /\ result = NoCalc

Rendered(op, blocks) ==
    /\ result' = [op |-> op, blocks |-> blocks]
    /\ UNCHANGED << shell, input >>

InterpretHypothesis1 ==
    /\ input.op = "hypothesis1" /\ result = NoCalc
    /\ Rendered("hypothesis1", hypothesis1_show_interpretation(input.t_pval, input.u_pval))

InterpretHypothesis2 ==
    /\ input.op = "hypothesis2" /\ result = NoCalc
    /\ Rendered("hypothesis2",
                hypothesis2_show_interpretation(input.pearson_corr, input.t_pval, input.u_pval))

InterpretHypothesis4 ==
    /\ input.op = "hypothesis4" /\ result = NoCalc
    /\ Rendered("hypothesis4", hypothesis4_verdict(input.p_value))

NextVerdict ==
    \/ InterpretHypothesis1
    \/ InterpretHypothesis2
    \/ InterpretHypothesis4

SpecVerdict == InitVerdict /\ [][NextVerdict]_vars

---------------------------------------------------------------------------
(* SpecSample: the calculations the pages make on a dataset, for every      *)
(* small sample: the price metrics of Hypothesis 1, the median split of     *)
(* Hypothesis 2, the price cap of Hypothesis 5 and the Model Showcase, the  *)
(* symboling bins of the Model Showcase.                                   *)
(* Means, medians and quantiles are computed in exact arithmetic.           *)

\* Largest number of rows of a sample.
MaxSample == 4

\* The sequences over S of length lo..hi.
SeqsOf(S, lo, hi) == UNION { [1..n -> S] : n \in lo..hi }

RECURSIVE Sum(_)
Sum(s) == IF s = << >> THEN 0 ELSE Head(s) + Sum(Tail(s))

\* A defect of RoundHalfEven: a tie goes up.
RoundHalfUp(num, den) ==
    IF 2 * (num % den) >= den THEN (num \div den) + 1 ELSE num \div den

\* num / den (num >= 0, den > 0) to the nearest integer, a tie to the even
\* one: the rounding of a format specification such as .0f or .1f
RoundHalfEven(num, den) ==
    LET q == num \div den
        r == num % den
    IN  IF 2 * r < den THEN q
        ELSE IF 2 * r > den THEN q + 1
        ELSE IF q % 2 = 0 THEN q ELSE q + 1

Abs(x) == IF x < 0 THEN -x ELSE x

\* f"{((group_avg - overall_avg) / overall_avg) * 100:+.1f}" for the means
\* group_sum / group_n and overall_sum / overall_n: the sign and the digits, in
\* tenths of a percent
FormatDelta(group_sum, group_n, overall_sum, overall_n) ==
    LET num == 1000 * (group_sum * overall_n - overall_sum * group_n)
        den == overall_sum * group_n
    IN  [sign |-> IF num < 0 THEN "-" ELSE "+", tenths |-> RoundHalfEven(Abs(num), den)]

\* One st.metric of show_price_metrics for the rows `group` of `rows`:
\* f"{group_avg:,.0f}" and the delta; the mean of no rows is nan.
PriceMetric(group, rows) ==
    IF group = << >>
    THEN [nan |-> TRUE]
    ELSE [nan   |-> FALSE,
          value |-> RoundHalfEven(Sum(group), Len(group)),
          delta |-> FormatDelta(Sum(group), Len(group), Sum(rows), Len(rows))]

Prices(rows) == [i \in DOMAIN rows |-> rows[i].price]

\* hypothesis1.py, show_price_metrics: the three metrics shown
show_price_metrics(rows) ==
    LET diesel == SelectSeq(rows, LAMBDA r : r.fueltype = "diesel")
        petrol == SelectSeq(rows, LAMBDA r : r.fueltype = "petrol")
    IN  [overall |-> RoundHalfEven(Sum(Prices(rows)), Len(rows)),
         diesel  |-> PriceMetric(Prices(diesel), Prices(rows)),
         petrol  |-> PriceMetric(Prices(petrol), Prices(rows))]

\* Series.median(), doubled: the middle value, or the mean of the two middle ones
Median2(values) ==
    LET sorted == SortAscending(values)
        n      == Len(values)
    IN  IF n % 2 = 1
        THEN 2 * sorted[(n + 1) \div 2]
        ELSE sorted[n \div 2] + sorted[(n \div 2) + 1]

\* A defect of run_statistical_tests_groups: rows at the median are in
\* neither group.
run_statistical_tests_groups_strict(avg_mpg) ==
    [low  |-> { i \in DOMAIN avg_mpg : 2 * avg_mpg[i] < Median2(avg_mpg) },
     high |-> { i \in DOMAIN avg_mpg : 2 * avg_mpg[i] > Median2(avg_mpg) }]

\* hypothesis2.py, run_statistical_tests: low_eff = df[df["avg_mpg"] <=
\* median_eff], high_eff = df[df["avg_mpg"] > median_eff], by row position
run_statistical_tests_groups(avg_mpg) ==
    LET median_eff2 == Median2(avg_mpg)
    IN  [low  |-> { i \in DOMAIN avg_mpg : 2 * avg_mpg[i] <= median_eff2 },
         high |-> { i \in DOMAIN avg_mpg : 2 * avg_mpg[i] > median_eff2 }]

\* hypothesis2.py, show_efficiency_price_metrics: the same two expressions,
\* evaluated again
show_efficiency_price_metrics_groups(avg_mpg) ==
    LET median_eff2 == Median2(avg_mpg)
    IN  [low  |-> { i \in DOMAIN avg_mpg : 2 * avg_mpg[i] <= median_eff2 },
         high |-> { i \in DOMAIN avg_mpg : 2 * avg_mpg[i] > median_eff2 }]

\* A defect of price_cap: rows priced exactly at the quantile are dropped.
price_cap_strict(prices) ==
    SelectSeq(prices, LAMBDA p : 100 * p < Quantile99x100(prices))

\* hypothesis5.py and insights_model.py: lower, upper = df['price'].quantile(
\* [0.0, 0.99]); df = df.query('price <= @upper'): the prices of the rows kept
price_cap(prices) ==
    SelectSeq(prices, LAMBDA p : 100 * p <= Quantile99x100(prices))

\* A cell of a categorical column: missing (NaN), or a value.
Missing == [missing |-> TRUE]

Value(v) == [missing |-> FALSE, value |-> v]

\* insights_model.py: the dictionary passed to replace
SymbolingBins ==
    (-2 :> "Low") @@ (-1 :> "Low") @@ (0 :> "Medium") @@ (1 :> "High")
    @@ (2 :> "Very High") @@ (3 :> "Very High")

\* A defect of remove_categories: no category is removed.
remove_categories_none(column, removals) ==
    [i \in DOMAIN column |-> Value(column[i])]

\* Series.cat.remove_categories(removals): the cells holding a removed
\* category become missing
remove_categories(column, removals) ==
    [i \in DOMAIN column |-> IF column[i] \in removals THEN Missing ELSE Value(column[i])]

\* Series.replace(bins) on a categorical column: a category that is a key of
\* the dictionary is renamed or merged into the new one, a key that is not a
\* category is skipped, missing cells stay missing
replace(column, bins) ==
    [i \in DOMAIN column |->
        IF ~column[i].missing /\ column[i].value \in DOMAIN bins
        THEN Value(bins[column[i].value])
        ELSE column[i]]

\* insights_model.py: df['symboling'].astype('category').cat.remove_categories(
\* [3]).replace({...}).  The categories are the values observed in the column,
\* and remove_categories raises ValueError when 3 is not one of them.
symboling_binned(symboling) ==
    IF 3 \notin Range(symboling)
    THEN [outcome |-> "fault"]
    ELSE [outcome |-> "prepared",
          column  |-> replace(remove_categories(symboling, {3}), SymbolingBins)]

\* The values of symboling in the dataset.
SymbolingValues == -2..3

FuelTypes == {"petrol", "diesel"}

\* The prices of the toy dataset.
ToyPrices == {10000, 12000, 20000, 22000}

SampleValues == {1, 2, 3}

SampleInputs ==
    [op : {"price_metrics"},
     rows : SeqsOf([fueltype : FuelTypes, price : ToyPrices], 1, MaxSample)]
    \cup [op : {"median_split"}, avg_mpg : SeqsOf(SampleValues, 0, MaxSample)]
    \cup [op : {"price_cap"}, page : {"Hypothesis 5", "Predictive Model Showcase"},
          prices : SeqsOf(SampleValues, 1, MaxSample)]
    \cup [op : {"symboling"}, symboling : SeqsOf(SymbolingValues, 1, MaxSample)]

InitSample ==
    /\ NoSession
    /\ input \in SampleInputs
    /\ result = NoCalc

ShowPriceMetrics ==
    /\ input.op = "price_metrics" /\ result = NoCalc
    /\ result' = [op |-> "price_metrics", metrics |-> show_price_metrics(input.rows)]
    /\ UNCHANGED << shell, input >>

SplitAtMedian ==
    /\ input.op = "median_split" /\ result = NoCalc
    /\ result' = [op |-> "median_split",
                  tests   |-> run_statistical_tests_groups(input.avg_mpg),
                  metrics |-> show_efficiency_price_metrics_groups(input.avg_mpg)]
    /\ UNCHANGED << shell, input >>

CapPrices ==
    /\ input.op = "price_cap" /\ result = NoCalc
    /\ result' = [op |-> "price_cap", prices |-> price_cap(input.prices)]
    /\ UNCHANGED << shell, input >>

BinSymboling ==
    /\ input.op = "symboling" /\ result = NoCalc
    /\ result' = [op |-> "symboling", binned |-> symboling_binned(input.symboling)]
    /\ UNCHANGED << shell, input >>

NextSample ==
    \/ ShowPriceMetrics
    \/ SplitAtMedian
    \/ CapPrices
    \/ BinSymboling

SpecSample == InitSample /\ [][NextSample]_vars

---------------------------------------------------------------------------
(* SpecRouting: the categorical tests of Hypothesis 5 for every number of   *)
(* distinct values the catalogue features can have in the capped dataset.  *)

\* hypothesis5.py: cats
cats ==
    << "symboling", "fueltype", "aspiration", "doornumber", "carbody", "drivewheel",
       "enginetype", "cylindernumber", "fuelsystem", "manufacturer", "compressionratio_bin" >>

\* df[cat].nunique(): one value, two values, three values or more
LevelCounts == {1, 2, 3}

\* cats_binary = [cat for cat in cats if df[cat].nunique() == 2]
cats_binary(nunique) == SelectSeq(cats, LAMBDA cat : nunique[cat] = 2)

\* A defect of cats_multi: features with 2 distinct values are multi-level too.
cats_multi_inclusive(nunique) == SelectSeq(cats, LAMBDA cat : nunique[cat] >= 2)

\* cats_multi = [cat for cat in cats if df[cat].nunique() > 2]
cats_multi(nunique) == SelectSeq(cats, LAMBDA cat : nunique[cat] > 2)

\* categorical_feature_tests: one row per binary feature, then one row per
\* multi-level feature
categorical_feature_tests(binary_features, multi_features) ==
    [i \in DOMAIN binary_features |->
        [feature |-> binary_features[i], test |-> "Mann-Whitney U"]]
    \o [i \in DOMAIN multi_features |->
        [feature |-> multi_features[i], test |-> "Kruskal-Wallis H"]]

\* The categorical part of the page: cats_multi.remove('manufacturer') raises
\* ValueError when manufacturer is not in the list, and the script ends there.
hypothesis5_categorical(nunique) ==
    IF "manufacturer" \notin Range(cats_multi(nunique))
    THEN [outcome |-> "fault", binary |-> cats_binary(nunique),
          multi |-> cats_multi(nunique), rows |-> << >>]
    ELSE [outcome |-> "rendered", binary |-> cats_binary(nunique),
          multi   |-> cats_multi(nunique),
          rows    |-> categorical_feature_tests(
                          cats_binary(nunique),
                          SelectSeq(cats_multi(nunique), LAMBDA cat : cat # "manufacturer"))]

InitRouting ==
    /\ NoSession
    /\ input \in [op : {"categorical"}, nunique : [Range(cats) -> LevelCounts]]
    /\ result = NoCalc

RunCategoricalTests ==
    /\ input.op = "categorical" /\ result = NoCalc
    /\ result' = [op      |-> "categorical",
                  outcome |-> hypothesis5_categorical(input.nunique).outcome,
                  binary  |-> hypothesis5_categorical(input.nunique).binary,
                  multi   |-> hypothesis5_categorical(input.nunique).multi,
                  rows    |-> hypothesis5_categorical(input.nunique).rows]
    /\ UNCHANGED << shell, input >>

NextRouting == RunCategoricalTests

SpecRouting == InitRouting /\ [][NextRouting]_vars

---------------------------------------------------------------------------
(* SpecSpearman: the ranking of spearman_feature_test for given rounded    *)
(* correlations (in thousandths) of the first continuous features.          *)

\* Largest number of predictors ranked.
MaxPredictors == 4

\* hypothesis5.py: conts
conts ==
    << "wheelbase", "carlength", "carwidth", "carheight", "curbweight", "enginesize",
       "boreratio", "stroke", "horsepower", "peakrpm", "citympg", "highwaympg",
       "price_per_hp", "power_to_weight_ratio", "engine_efficiency", "avg_mpg",
       "price_per_mpg" >>

\* round(corr, 3) of a predictor, in thousandths
RoundedCorrelations == {-500, 0, 500}

\* results: one row per predictor, in the order of the list
SpearmanRows(predictors, corr) ==
    [i \in DOMAIN predictors |-> [feature |-> predictors[i], spearman_corr |-> corr[i]]]

IndexPermutations(n) == { p \in [1..n -> 1..n] : \A i, j \in 1..n : i # j => p[i] # p[j] }

\* pd.DataFrame(results).sort_values(by='spearman_corr', ascending=False)
\* .reset_index(drop=True): sort_values sorts with kind='quicksort', which is
\* not a stable sort, so rows with equal keys come out in any order.
SortedDescending(rows) ==
    { [i \in DOMAIN rows |-> rows[p[i]]] : p \in
        { q \in IndexPermutations(Len(rows)) :
            \A i \in 1..(Len(rows) - 1) :
                rows[q[i]].spearman_corr >= rows[q[i + 1]].spearman_corr } }

\* spearman_feature_test: the tables it can return
spearman_feature_test(predictors, corr) == SortedDescending(SpearmanRows(predictors, corr))

InitSpearman ==
    /\ NoSession
    /\ \E n \in 1..MaxPredictors :
          input \in [op : {"spearman"}, predictors : {SubSeq(conts, 1, n)},
                     corr : [1..n -> RoundedCorrelations]]
    /\ result = NoCalc

RankBySpearman ==
    /\ input.op = "spearman" /\ result = NoCalc
    /\ \E table \in spearman_feature_test(input.predictors, input.corr) :
          result' = [op |-> "spearman", rows |-> table]
    /\ UNCHANGED << shell, input >>

NextSpearman == RankBySpearman

SpecSpearman == InitSpearman /\ [][NextSpearman]_vars

---------------------------------------------------------------------------
(* Properties                                                              *)

\* Vocabulary of the properties, written without the operators of the code.
InRange(v, lo, hi) == lo <= v /\ v <= hi

Selected(i, col, selection) == selection = {} \/ Cell(i, col) \in selection

RawRows == Range(Get(session, "df").rows)

KeptRows == Range(Get(session, "filtered_df").rows)

NumericOk(i, col, key) == InRange(Cell(i, col), filters[key][1], filters[key][2])

CategoriesOk(i) ==
    /\ Selected(i, "fueltype", filters.fuel_types)
    /\ Selected(i, "carbody", filters.carbody_types)
    /\ Selected(i, "drivewheel", filters.drivewheel_types)

OnBoundary(i, col, key) == Cell(i, col) \in {filters[key][1], filters[key][2]}

\* C1: for every price range [lo, hi] on the slider, the published result of
\* apply_filters holds only rows with lo <= price <= hi, and every row whose
\* price equals lo or hi and which passes the other five filters is in it; the
\* same for the engine-size and the horsepower range.
C1_RangeFiltersInclusive ==
    pc # "start" =>
        /\ \A i \in KeptRows :
              /\ NumericOk(i, "price", "price_range")
              /\ NumericOk(i, "enginesize", "enginesizes")
              /\ NumericOk(i, "horsepower", "horsepower")
        /\ \A i \in RawRows :
              /\ ( /\ OnBoundary(i, "price", "price_range")
                   /\ NumericOk(i, "enginesize", "enginesizes")
                   /\ NumericOk(i, "horsepower", "horsepower")
                   /\ CategoriesOk(i) ) => i \in KeptRows
              /\ ( /\ OnBoundary(i, "enginesize", "enginesizes")
                   /\ NumericOk(i, "price", "price_range")
                   /\ NumericOk(i, "horsepower", "horsepower")
                   /\ CategoriesOk(i) ) => i \in KeptRows
              /\ ( /\ OnBoundary(i, "horsepower", "horsepower")
                   /\ NumericOk(i, "price", "price_range")
                   /\ NumericOk(i, "enginesize", "enginesizes")
                   /\ CategoriesOk(i) ) => i \in KeptRows

\* A run whose price range is narrower than the data: a row priced exactly lo
\* and a row priced exactly hi are kept, lo < hi, and a row below lo is dropped.
C1_Witness ==
    /\ pc = "page"
    /\ filters.price_range[1] < filters.price_range[2]
    /\ \E i \in KeptRows : Cell(i, "price") = filters.price_range[1]
    /\ \E i \in KeptRows : Cell(i, "price") = filters.price_range[2]
    /\ \E i \in RawRows \ KeptRows : Cell(i, "price") < filters.price_range[1]

\* The three categorical filters: key of the selection, column it filters.
Categorical ==
    { << "fuel_types", "fueltype" >>, << "carbody_types", "carbody" >>,
      << "drivewheel_types", "drivewheel" >> }

\* C2: for each categorical filter, the other five filter values held fixed,
\* apply_filters with the empty selection returns the rows it returns with the
\* full observed domain selected, and with a non-empty selection no row whose
\* value is outside the selection is in the result.
C2_EmptySelectionIsFullDomain ==
    pc # "start" =>
        \A c \in Categorical :
            LET df == Get(session, "df")
            IN  /\ apply_filters(df, [filters EXCEPT ![c[1]] = {}]).rows
                     = apply_filters(df, [filters EXCEPT ![c[1]] = Unique(df, c[2])]).rows
                /\ filters[c[1]] = {} =>
                     Get(session, "filtered_df").rows
                       = apply_filters(df, [filters EXCEPT ![c[1]] = Unique(df, c[2])]).rows
                /\ filters[c[1]] # {} =>
                     \A i \in KeptRows : Cell(i, c[2]) \in filters[c[1]]

\* A run with no fuel type selected and some, not all, drive-wheel types
\* selected: rows of both fuel types are kept, and a row of a drive-wheel type
\* outside the selection is dropped.
C2_Witness ==
    /\ pc = "page"
    /\ filters.fuel_types = {}
    /\ filters.drivewheel_types # {}
    /\ filters.drivewheel_types # Unique(Get(session, "df"), "drivewheel")
    /\ \E i, j \in KeptRows : Cell(i, "fueltype") # Cell(j, "fueltype")
    /\ \E i \in RawRows \ KeptRows : Cell(i, "drivewheel") \notin filters.drivewheel_types

\* C3: whenever a page is dispatched, the filtered dataset in session state is
\* apply_filters of the raw dataset under the filter values of the same run,
\* which are the user's current selections, and the snapshot holds those values.
C3_FilteredDatasetFresh ==
    pc = "page" =>
        /\ Has(session, "df") /\ Has(session, "filtered_df") /\ Has(session, "global_filters")
        /\ filters = FilterValues(Get(session, "df"), widgets, current_page)
        /\ Get(session, "filtered_df") = apply_filters(Get(session, "df"), filters)
        /\ Get(session, "global_filters") = filters

\* A page dispatched in a later run of the session, on another page than the
\* first, with a selection that drops some rows and keeps others.
C3_Witness ==
    /\ pc = "page"
    /\ "df" \notin assigned
    /\ current_page = "Hypothesis 2"
    /\ KeptRows # RawRows
    /\ KeptRows # {}

\* C4: in every run the number shown in "Cars after filtering: N" is the row
\* count of apply_filters under the run's filter values, and the row count of
\* the filtered dataset the page reads.
C4_FilteredCountConsistent ==
    pc # "start" =>
        /\ sidebar_count = Len(apply_filters(Get(session, "df"), filters).rows)
        /\ sidebar_count = Len(Get(session, "filtered_df").rows)

\* A run that shows a count below the number of rows of the dataset.
C4_Witness ==
    /\ pc = "page"
    /\ sidebar_count > 0
    /\ sidebar_count < Len(Get(session, "df").rows)

\* Each range at [min, max] of its column and each selection the full domain.
AtDefaults ==
    LET df == Get(session, "df")
    IN  /\ filters.price_range = << SetMin(Unique(df, "price")), SetMax(Unique(df, "price")) >>
        /\ filters.enginesizes
             = << SetMin(Unique(df, "enginesize")), SetMax(Unique(df, "enginesize")) >>
        /\ filters.horsepower
             = << SetMin(Unique(df, "horsepower")), SetMax(Unique(df, "horsepower")) >>
        /\ filters.fuel_types = Unique(df, "fueltype")
        /\ filters.carbody_types = Unique(df, "carbody")
        /\ filters.drivewheel_types = Unique(df, "drivewheel")

\* C5: with the default filter values, apply_filters returns every row of the
\* loaded dataset, in order and with its columns, and the indicator shows the
\* row count of the dataset (as many rows out as rows in).
C5_DefaultsKeepEveryRow ==
    (pc = "page" /\ AtDefaults) =>
        /\ Get(session, "filtered_df") = Get(session, "df")
        /\ sidebar_count = disk
        /\ Len(Get(session, "df").rows) = disk

\* A run at the defaults on the largest dataset.
C5_Witness ==
    /\ pc = "page"
    /\ AtDefaults
    /\ disk = MaxRows
    /\ sidebar_count = MaxRows

\* C6: while a page executes, nothing held under the shell-owned session keys
\* df, filtered_df and global_filters is written or modified: the store after
\* the page is the store the shell left before dispatch.
C6_PagesLeaveSessionUnchanged ==
    [][pc = "page" => session' = session]_vars

\* The key of the session store a page reads.
KeyRead(page) ==
    IF page \in {"Overview", "Hypothesis 1", "Hypothesis 2"} THEN "filtered_df" ELSE "df"

\* C7: Overview, Hypothesis 1, Hypothesis 2, Hypothesis 5 and the Model Showcase
\* check that the session key they read exists, and when it is absent the page
\* ends with a warning and halts, not with a key fault.
C7_PagesGuardMissingState ==
    ( /\ pc = "idle"
      /\ current_page \in {"Overview", "Hypothesis 1", "Hypothesis 2", "Hypothesis 5",
                           "Predictive Model Showcase"}
      /\ ~Has(session, KeyRead(current_page)) ) => outcome = "warning"

\* C8: on the Model Showcase page a failure of the prediction path, a missing
\* or unloadable model artifact included, ends with the page rendered and the
\* prediction-failed error shown, never with a fault of the page; a run in which
\* the button was not pressed is rendered with the prompt whatever the artifact.
C8_PredictionFailureHandled ==
    ( /\ pc = "idle"
      /\ current_page = "Predictive Model Showcase"
      /\ Has(session, "df") ) =>
        /\ outcome = "rendered"
        /\ (button /\ artifact # "ok") => shown = "failed"
        /\ ~button => shown = "prompt"

\* C9: on Hypothesis 1 the fuel-type selection that apply_filters uses and that
\* the snapshot records is every observed fuel type, whatever the user selected
\* before; on every other page it is the selection of the fuel-type control.
C9_FuelFilterSuppressedOnHypothesis1 ==
    pc # "start" =>
        LET all == Unique(Get(session, "df"), "fueltype")
        IN  /\ current_page = "Hypothesis 1" =>
                 /\ filters.fuel_types = all
                 /\ Get(session, "global_filters").fuel_types = all
                 /\ \A i \in RawRows :
                       ( /\ NumericOk(i, "price", "price_range")
                         /\ NumericOk(i, "enginesize", "enginesizes")
                         /\ NumericOk(i, "horsepower", "horsepower")
                         /\ Selected(i, "carbody", filters.carbody_types)
                         /\ Selected(i, "drivewheel", filters.drivewheel_types) )
                       => i \in KeptRows
            /\ current_page # "Hypothesis 1" =>
                 /\ filters.fuel_types = widgets.fuel_types
                 /\ Get(session, "global_filters").fuel_types = widgets.fuel_types

\* Hypothesis 1 dispatched after the user had selected petrol only: both fuel
\* types are in force and a diesel row is in the filtered dataset.
C9_Witness ==
    /\ pc = "page"
    /\ current_page = "Hypothesis 1"
    /\ widgets.fuel_types = {"petrol"}
    /\ filters.fuel_types = {"petrol", "diesel"}
    /\ \E i \in KeptRows : Cell(i, "fueltype") = "diesel"

\* C10: in a session the key df is populated once, by the run that finds it
\* absent, and is never cleared or replaced; load_data is not called by a run
\* that finds df present; filtered_df and global_filters are assigned by every
\* run.
C10_DatasetLoadedOnce ==
    /\ [](load_calls = IF Has(session, "df") THEN 1 ELSE 0)
    /\ [](pc # "start" => Has(session, "df"))
    /\ [][Has(session, "df") => (session'.df = session.df /\ load_calls' = load_calls)]_vars
    /\ [][pc' = "page" =>
            /\ {"filtered_df", "global_filters"} \subseteq assigned'
            /\ ("df" \in assigned') = ~Has(session, "df")]_vars

\* A later run of the session: df was present, load_data was not called again,
\* and the two derived keys were assigned.
C10_Witness ==
    /\ pc = "page"
    /\ load_calls = 1
    /\ assigned = {"filtered_df", "global_filters"}
    /\ filters # DefaultWidgets(Get(session, "df"))

\* C11: on the Overview page a filtered dataset that is present with zero rows
\* ends the page with an error before any KPI, histogram or table is computed
\* or rendered, and an absent filtered dataset ends it with a warning likewise.
C11_OverviewHaltsOnEmptyOrAbsent ==
    (pc = "idle" /\ current_page = "Overview") =>
        /\ ~Has(session, "filtered_df") => (outcome = "warning" /\ steps = {})
        /\ (Has(session, "filtered_df") /\ Len(Get(session, "filtered_df").rows) = 0)
             => (outcome = "error" /\ steps = {})

\* Overview has run on a published filtered dataset that no row passed.
C11_Witness ==
    /\ pc = "idle"
    /\ current_page = "Overview"
    /\ Has(session, "filtered_df")
    /\ Get(session, "filtered_df").rows = << >>
    /\ Len(Get(session, "df").rows) > 0
    /\ outcome = "error"

\* C18: on the Hypothesis 4 page, when car_prices.csv is not among the files of
\* the data directory the page ends with an error shown, before load_data and
\* before any statistic or plot, and not with a fault; when the file is there
\* the page goes on to load it.
C18_Hypothesis4PreflightCheck ==
    (pc = "idle" /\ current_page = "Hypothesis 4") =>
        /\ ~csv_on_disk => (outcome = "error" /\ steps = {})
        /\ csv_on_disk => (outcome = "rendered" /\ "load_data" \in steps)

\* Hypothesis 4 has run without the file and halted with the error.
C18_Witness ==
    /\ pc = "idle"
    /\ current_page = "Hypothesis 4"
    /\ ~csv_on_disk
    /\ outcome = "error"
    /\ "load_data" \notin steps

\* C19: in every run of the Model Showcase page on a loaded dataset, predict is
\* invoked exactly when the Predict Price button was pressed in that run, and
\* exactly one of the predicted price, the prediction-failed error and the
\* prompt is shown: one of the first two when the button was pressed, the
\* prompt when it was not, whatever an earlier run showed.
C19_PredictOnlyOnButtonPress ==
    (pc = "idle" /\ current_page = "Predictive Model Showcase" /\ Has(session, "df")) =>
        /\ ("predict" \in steps) <=> button
        /\ shown \in {"prediction", "failed", "prompt"}
        /\ button => shown \in {"prediction", "failed"}
        /\ ~button => shown = "prompt"

\* C13: the Hypothesis 1 verdict is the significant one exactly when the t-test
\* p-value or the Mann-Whitney p-value is below 0.05, the Hypothesis 4 verdict
\* exactly when the t-test p-value is below 0.05; a p-value of exactly 0.05
\* does not by itself give the significant verdict, and exactly one of the two
\* verdict blocks is rendered.
C13_VerdictThresholdStrict ==
    /\ result.op = "hypothesis1" =>
          /\ ("success" \in result.blocks) <=> (input.t_pval < Alpha \/ input.u_pval < Alpha)
          /\ (input.t_pval = Alpha /\ input.u_pval >= Alpha) => result.blocks = {"info"}
          /\ (input.u_pval = Alpha /\ input.t_pval >= Alpha) => result.blocks = {"info"}
          /\ result.blocks \in {{"success"}, {"info"}}
    /\ result.op = "hypothesis4" =>
          /\ ("success" \in result.blocks) <=> (input.p_value < Alpha)
          /\ input.p_value = Alpha => result.blocks = {"info"}
          /\ result.blocks \in {{"success"}, {"info"}}

\* Hypothesis 1 interpreted with a t-test p-value of exactly 0.05 and a larger
\* Mann-Whitney p-value: the cannot-reject block alone.
C13_Witness ==
    /\ result.op = "hypothesis1"
    /\ input.t_pval = Alpha
    /\ input.u_pval > Alpha
    /\ result.blocks = {"info"}

\* C14: the Hypothesis 2 verdict is the significant one exactly when the
\* Pearson correlation is negative and the t-test p-value or the Mann-Whitney
\* p-value is below 0.05; otherwise, a correlation of 0 or a positive one with
\* both p-values below 0.05 included, the cannot-reject block is rendered.
C14_Hypothesis2VerdictNeedsNegativeCorrelation ==
    result.op = "hypothesis2" =>
        /\ result.blocks = {"success"}
             <=> (input.pearson_corr < 0 /\ (input.t_pval < Alpha \/ input.u_pval < Alpha))
        /\ result.blocks # {"success"} => result.blocks = {"info"}
        /\ input.pearson_corr >= 0 => result.blocks = {"info"}

\* Hypothesis 2 interpreted with a positive correlation and both p-values below
\* 0.05: the cannot-reject block.
C14_Witness ==
    /\ result.op = "hypothesis2"
    /\ input.pearson_corr > 0
    /\ input.t_pval < Alpha /\ input.u_pval < Alpha
    /\ result.blocks = {"info"}

\* The toy dataset: two petrol cars at 10000 and 12000, two diesel cars at
\* 20000 and 22000.
ToyDataset ==
    << [fueltype |-> "petrol", price |-> 10000], [fueltype |-> "petrol", price |-> 12000],
       [fueltype |-> "diesel", price |-> 20000], [fueltype |-> "diesel", price |-> 22000] >>

\* The prices of the rows of the sample with fuel type f.
GroupPrices(f) == Prices(SelectSeq(input.rows, LAMBDA r : r.fueltype = f))

\* The delta shown is the exact (G - O) / O * 100 to the nearest tenth, with
\* "-" when the group mean is below the overall mean and "+" otherwise.
DeltaIsDeviation(metric, group) ==
    LET all   == Prices(input.rows)
        exact == 1000 * (Sum(group) * Len(all) - Sum(all) * Len(group))
        den   == Sum(all) * Len(group)
    IN  /\ 2 * Abs(Abs(exact) - metric.delta.tenths * den) <= den
        /\ (metric.delta.sign = "-") <=> (exact < 0)
        /\ metric.delta.sign \in {"+", "-"}

\* C12 as stated: for the toy dataset the metrics block shows overall 16000,
\* diesel 21000 with delta +31.3% and petrol 11000 with delta -31.3%.
C12_ToyDatasetMetrics ==
    (result.op = "price_metrics" /\ input.rows = ToyDataset) =>
        result.metrics =
            [overall |-> 16000,
             diesel  |-> [nan |-> FALSE, value |-> 21000,
                          delta |-> [sign |-> "+", tenths |-> 313]],
             petrol  |-> [nan |-> FALSE, value |-> 11000,
                          delta |-> [sign |-> "-", tenths |-> 313]]]

\* C12, amended: for the toy dataset the metrics block shows overall 16000,
\* diesel 21000 with delta +31.2% and petrol 11000 with delta -31.2% (31.25
\* formatted to one decimal, the tie going to the even digit); for every sample
\* each delta is (group mean - overall mean) / overall mean * 100 to the nearest
\* tenth with an explicit sign.
C12_ToyDatasetMetricsHalfEven ==
    result.op = "price_metrics" =>
        /\ input.rows = ToyDataset =>
              result.metrics =
                  [overall |-> 16000,
                   diesel  |-> [nan |-> FALSE, value |-> 21000,
                                delta |-> [sign |-> "+", tenths |-> 312]],
                   petrol  |-> [nan |-> FALSE, value |-> 11000,
                                delta |-> [sign |-> "-", tenths |-> 312]]]
        /\ ~result.metrics.diesel.nan =>
              DeltaIsDeviation(result.metrics.diesel, GroupPrices("diesel"))
        /\ ~result.metrics.petrol.nan =>
              DeltaIsDeviation(result.metrics.petrol, GroupPrices("petrol"))

\* The metrics block computed for the toy dataset.
C12_Witness ==
    /\ result.op = "price_metrics"
    /\ input.rows = ToyDataset
    /\ result.metrics.overall = 16000
    /\ result.metrics.diesel.value = 21000
    /\ result.metrics.petrol.value = 11000

\* C17: in Hypothesis 2 the low-efficiency group (avg_mpg <= median) and the
\* high-efficiency group (avg_mpg > median) partition the filtered dataset:
\* every row is in exactly one group, the sizes sum to the row count, and the
\* metrics block and the statistical tests use the same split.
C17_MedianSplitPartitions ==
    result.op = "median_split" =>
        /\ result.tests.low \cap result.tests.high = {}
        /\ result.tests.low \cup result.tests.high = DOMAIN input.avg_mpg
        /\ Cardinality(result.tests.low) + Cardinality(result.tests.high) = Len(input.avg_mpg)
        /\ result.metrics.low \cap result.metrics.high = {}
        /\ result.metrics.low \cup result.metrics.high = DOMAIN input.avg_mpg
        /\ result.metrics = result.tests

\* A split with both groups non-empty and more rows in the low group than
\* in the high one: rows at the median are in the low group.
C17_Witness ==
    /\ result.op = "median_split"
    /\ result.tests.high # {}
    /\ Cardinality(result.tests.low) > Cardinality(result.tests.high)
    /\ \E i \in result.tests.low, j \in result.tests.low : input.avg_mpg[i] < input.avg_mpg[j]

\* C20: after the price cap of Hypothesis 5 and of the Model Showcase, every
\* price of the working set is <= P99, the 0.99 quantile of the raw prices, and
\* the working set has as many rows as the raw dataset has rows priced <= P99;
\* rows priced exactly P99 are kept.
C20_PriceCapAtP99 ==
    result.op = "price_cap" =>
        LET p99x100 == Quantile99x100(input.prices)
            within  == { i \in DOMAIN input.prices : 100 * input.prices[i] <= p99x100 }
        IN  /\ \A i \in DOMAIN result.prices : 100 * result.prices[i] <= p99x100
            /\ Len(result.prices) = Cardinality(within)
            /\ \A i \in DOMAIN input.prices :
                  100 * input.prices[i] = p99x100
                      => \E j \in DOMAIN result.prices : result.prices[j] = input.prices[i]

\* A cap on a dataset whose two highest prices are equal, so P99 is that price:
\* both rows are kept, next to a cheaper one.
C20_Witness ==
    /\ result.op = "price_cap"
    /\ Len(input.prices) >= 3
    /\ \E i \in DOMAIN result.prices : 100 * result.prices[i] = Quantile99x100(input.prices)
    /\ \E i \in DOMAIN result.prices : 100 * result.prices[i] < Quantile99x100(input.prices)
    /\ Len(result.prices) = Len(input.prices)

\* The rows of the categorical results table for feature `cat`.
RowsOf(cat) == { i \in DOMAIN result.rows : result.rows[i].feature = cat }

\* C15: in Hypothesis 5 every catalogue feature with exactly 2 distinct values
\* in the capped dataset yields one result row labelled "Mann-Whitney U", every
\* feature (manufacturer apart) with 3 or more yields one row labelled
\* "Kruskal-Wallis H", and manufacturer is in no Kruskal-Wallis row, whatever
\* its number of distinct values.
C15_CategoricalTestRouting ==
    result.op = "categorical" =>
        /\ \A cat \in Range(cats) :
              /\ input.nunique[cat] = 2 =>
                    /\ Cardinality(RowsOf(cat)) = 1
                    /\ \A i \in RowsOf(cat) : result.rows[i].test = "Mann-Whitney U"
              /\ (input.nunique[cat] >= 3 /\ cat # "manufacturer") =>
                    /\ Cardinality(RowsOf(cat)) = 1
                    /\ \A i \in RowsOf(cat) : result.rows[i].test = "Kruskal-Wallis H"
        /\ \A i \in RowsOf("manufacturer") : result.rows[i].test # "Kruskal-Wallis H"

\* The position of the predictor of row i of the table in the input list.
InputPosition(i) ==
    CHOOSE k \in DOMAIN input.predictors : input.predictors[k] = result.rows[i].feature

\* C16: spearman_feature_test returns one row per continuous feature, ordered
\* by spearman_corr descending, and features whose rounded correlations are
\* equal keep the relative order they have in the input feature list.
C16_SpearmanRankingStable ==
    result.op = "spearman" =>
        /\ Len(result.rows) = Len(input.predictors)
        /\ \A k \in DOMAIN input.predictors :
              \E i \in DOMAIN result.rows :
                  result.rows[i] = [feature |-> input.predictors[k],
                                    spearman_corr |-> input.corr[k]]
        /\ \A i \in 1..(Len(result.rows) - 1) :
              result.rows[i].spearman_corr >= result.rows[i + 1].spearman_corr
        /\ \A i, j \in DOMAIN result.rows :
              (i < j /\ result.rows[i].spearman_corr = result.rows[j].spearman_corr)
                  => InputPosition(i) < InputPosition(j)

\* The pages that do not work on the filtered dataset.
UnfilteredPages == {"Hypothesis 4", "Hypothesis 5", "Predictive Model Showcase"}

\* The rows of the file on disk, and those priced at or below the 0.99
\* quantile of the file's prices.
FileRows == [i \in 1..disk |-> i]

FileRowsCapped ==
    SelectSeq(FileRows,
              LAMBDA i : 100 * Catalogue[i].price
                            <= Quantile99x100([k \in 1..disk |-> Catalogue[k].price]))

\* The prices of the rows of the file with drive wheel `wheel`, in file order.
FilePricesOf(wheel) ==
    LET rows == SelectSeq(FileRows, LAMBDA i : Catalogue[i].drivewheel = wheel)
    IN  [k \in DOMAIN rows |-> Catalogue[rows[k]].price]

C22_SymbolingBinned ==
    (result.op = "symboling" /\ result.binned.outcome = "prepared") =>
        /\ DOMAIN result.binned.column = DOMAIN input.symboling
        /\ \A i \in DOMAIN input.symboling :
              LET s      == input.symboling[i]
                  binned == result.binned.column[i]
              IN  /\ s \in {-2, -1} => binned = Value("Low")
                  /\ s = 0 => binned = Value("Medium")
                  /\ s = 1 => binned = Value("High")
                  /\ s = 2 => binned = Value("Very High")
                  /\ s = 3 => (binned = Missing /\ binned # Value("Very High"))

\* A prepared column with a row of symboling 3 and a row of symboling 2.
C22_Witness ==
    /\ result.op = "symboling"
    /\ result.binned.outcome = "prepared"
    /\ \E i, j \in DOMAIN input.symboling :
          /\ input.symboling[i] = 3 /\ result.binned.column[i] = Missing
          /\ input.symboling[j] = 2 /\ result.binned.column[j] = Value("Very High")

\* C23: every run of the shell hands the page a filtered dataset that has
\* exactly the columns of the raw dataset, so the fueltype_encoded column that
\* Hypothesis 1 adds to the filtered dataset in one run is gone in the next
\* run; the raw dataset never has that column.
C23_FilteredColumnsReset ==
    [][ /\ pc' = "page" =>
              /\ Has(session', "df") /\ Has(session', "filtered_df")
              /\ Get(session', "filtered_df").columns = Get(session', "df").columns
              /\ "fueltype_encoded" \notin Get(session', "filtered_df").columns
        /\ Has(session', "df") =>
              /\ Get(session', "df").columns = BaseColumns
              /\ "fueltype_encoded" \notin Get(session', "df").columns ]_vars

\* Hypothesis 1 has run and left its column in the filtered dataset of the
\* session: the next run starts from here.
C23_Witness ==
    /\ pc = "idle"
    /\ current_page = "Hypothesis 1"
    /\ outcome = "rendered"
    /\ "fueltype_encoded" \in Get(session, "filtered_df").columns
    /\ "fueltype_encoded" \notin Get(session, "df").columns

C25_OnlyRegisteredPagesDispatched ==
    [][ /\ pc = "start" =>
              (current_page = "Overview" /\ current_page' = "Overview" /\ pc' = "page")
        /\ current_page' \in {"Overview", "Hypothesis 1", "Hypothesis 2", "Hypothesis 3",
                              "Hypothesis 4", "Hypothesis 5"}
        /\ current_page' # "Predictive Model Showcase"
        /\ pc = "idle" => (pc' = "page" /\ outcome' = "none")
        /\ pc = "page" => (pc' = "idle" /\ current_page' = current_page /\ outcome' # "none")
      ]_vars

\* The user has navigated away from Overview and the selected page has run.
C25_Witness ==
    /\ pc = "idle"
    /\ current_page = "Hypothesis 3"
    /\ outcome = "rendered"
    /\ load_calls = 1

\* C26: in Hypothesis 5 the binary and the multi-level feature lists have no
\* feature in common, and a feature with a single distinct value is in neither
\* and gets no test row; when manufacturer has fewer than 3 distinct values in
\* the capped dataset the removal from the multi-level list fails and no test
\* row is produced, and with exactly 2 manufacturer is in the binary list.
C26_FeatureSubsetsAndManufacturerAbort ==
    result.op = "categorical" =>
        /\ Range(result.binary) \cap Range(result.multi) = {}
        /\ \A cat \in Range(cats) :
              input.nunique[cat] = 1 =>
                  /\ cat \notin Range(result.binary) \cup Range(result.multi)
                  /\ RowsOf(cat) = {}
        /\ input.nunique["manufacturer"] < 3 =>
              /\ "manufacturer" \notin Range(result.multi)
              /\ result.outcome = "fault"
              /\ result.rows = << >>
        /\ input.nunique["manufacturer"] = 2 => "manufacturer" \in Range(result.binary)

\* manufacturer has 2 distinct values and the page has aborted, while another
\* feature has a single value and a third one is multi-level.
C26_Witness ==
    /\ result.op = "categorical"
    /\ input.nunique["manufacturer"] = 2
    /\ result.outcome = "fault"
    /\ "manufacturer" \in Range(result.binary)
    /\ input.nunique["fueltype"] = 1
    /\ "carbody" \in Range(result.multi)

\* The ranges inside the range r.
NarrowedRanges(r) == { q \in (r[1]..r[2]) \X (r[1]..r[2]) : q[1] <= q[2] }

\* g narrows f: every range of g is inside the range of f, and every selection
\* of g is a non-empty part of the selection of f.
Narrows(g, f) ==
    /\ \A k \in {"price_range", "enginesizes", "horsepower"} :
          f[k][1] <= g[k][1] /\ g[k][2] <= f[k][2]
    /\ \A c \in Categorical : g[c[1]] \subseteq f[c[1]] /\ (g[c[1]] = {} => f[c[1]] = {})

\* The rows apply_filters keeps of the raw dataset for the filter values f.
RowsKept(f) == Range(apply_filters(Get(session, "df"), f).rows)

\* C27: apply_filters is monotone under narrowing while selections stay
\* non-empty: shrinking a range, or removing values from a selection that stays
\* non-empty, adds no row to the filtered dataset.  Removing the last value of
\* a selection is the exception: the result is the one of the full domain, so
\* it contains the rows kept before and may contain more.
C27_NarrowingNeverAddsRows ==
    pc = "page" =>
        /\ \A g \in Selections(Get(session, "df")) :
              Narrows(g, filters) => RowsKept(g) \subseteq KeptRows
        /\ \A c \in Categorical :
              filters[c[1]] # {} =>
                  /\ RowsKept([filters EXCEPT ![c[1]] = {}])
                       = RowsKept([filters EXCEPT ![c[1]] = Unique(Get(session, "df"), c[2])])
                  /\ KeptRows \subseteq RowsKept([filters EXCEPT ![c[1]] = {}])

\* A run which keeps some rows and from which shrinking the price range drops
\* a row, removing a fuel type that is not the last one drops a row, and
\* removing the last body type adds a row.
C27_Witness ==
    /\ pc = "page"
    /\ KeptRows # {}
    /\ \E q \in NarrowedRanges(filters.price_range) :
          RowsKept([filters EXCEPT !.price_range = q]) # KeptRows
    /\ \E S \in (SUBSET filters.fuel_types) \ {{}} :
          RowsKept([filters EXCEPT !.fuel_types = S]) # KeptRows
    /\ Cardinality(filters.carbody_types) = 1
    /\ Cardinality(RowsKept([filters EXCEPT !.carbody_types = {}])) > Cardinality(KeptRows)

=============================================================================
